---- MODULE Spec2Model ----
(***************************************************************************)
(* sparseDistance (src/sparsebinarydistance/distance.py): the iterative    *)
(* row/column filter, the feature weights, the pairwise loop and the        *)
(* mirroring of the joint matrix, as a state machine.                       *)
(*                                                                          *)
(* Arithmetic is exact.  Every weight is -log2 of a positive rational, so   *)
(* every sum of weights is an integer combination of log2(p), p prime,      *)
(* and is kept as its vector of coefficients (log2(2) = 1 carries the       *)
(* rational part).  A quotient keeps its numerator and its divisor.         *)
(* Rounding of IEEE doubles is not modelled.                                *)
(***************************************************************************)
EXTENDS Integers, Sequences, FiniteSets, TLC

\* ---------------------------------------------------------------- bounds
MaxRows == 3
MaxCols == 3
MaxEntries == 6
MaxMinPresence == 2
MaxMinMeasurementsPerCell == 2

\* ------------------------------------------------------- matrix entries
\* "contains 1s 0s and NaNs for missing data".  The code reads an entry only
\* through >=0, ==1 and ==0, all three false of NaN; -1 answers the same.
Present == 1
Absent == 0
Missing == -1

Values == {Present, Absent, Missing}

None == << >>
Some(x) == << x >>

VARIABLES
    X,                        \* the caller's matrix: row label -> column label -> value
    minPresence,
    minMeasurementsPerCell,
    weight,
    pc,                       \* "filter", "pairs", "mirror", "return", "done" (returned),
                              \* "raised" (ValueError), "unbound" (UnboundLocalError),
                              \* "filtered" (the second call's loop has ended)
    keptX,                    \* [index: retained row labels, columns: retained column labels]
    prev,
    selectedCells,
    selectedColumns,
    pOnes,
    pZeros,
    simMatrix,
    differenceMatrix,
    jointMatrix,
    cai,
    cbi,
    normalisationFactor,
    i,
    j,
    result,
    iteration,                \* history: executions of the filter loop body in this call
    lastChange,               \* history: the last execution that removed a row or a column
    visited,                  \* history: the pairs (cai, cbi) the pairwise loop computed
    call,                     \* history: 1 in the first call, 2 in a call on the first call's keptX
    firstKept                 \* history: the keptX the first call's filter loop ended with

vars == << X, minPresence, minMeasurementsPerCell, weight, pc, keptX, prev,
           selectedCells, selectedColumns, pOnes, pZeros, simMatrix,
           differenceMatrix, jointMatrix, cai, cbi, normalisationFactor, i, j,
           result, iteration, lastChange, visited, call, firstKept >>

\* ------------------------------------------------------------- helpers
RECURSIVE Masked(_, _)
\* df[mask] / df.loc[:, mask]: the positions whose mask is True, in order
Masked(seq, mask) ==
    IF seq = << >> THEN << >>
    ELSE (IF Head(mask) THEN << Head(seq) >> ELSE << >>)
         \o Masked(Tail(seq), Tail(mask))

RECURSIVE SumMask(_)
\* sum(mask): the number of True entries
SumMask(mask) ==
    IF mask = << >> THEN 0
    ELSE (IF Head(mask) THEN 1 ELSE 0) + SumMask(Tail(mask))

RECURSIVE CountIn(_, _, _)
\* (column == v).sum() over the rows `rows` of column label c
CountIn(rows, c, v) ==
    IF rows = << >> THEN 0
    ELSE (IF X[Head(rows)][c] = v THEN 1 ELSE 0) + CountIn(Tail(rows), c, v)

RECURSIVE Measurements(_, _)
\* (row >= 0).sum() over the columns `cols` of row label r
Measurements(r, cols) ==
    IF cols = << >> THEN 0
    ELSE (IF X[r][Head(cols)] >= 0 THEN 1 ELSE 0) + Measurements(r, Tail(cols))

\* ------------------------------------------------------ the filter loop
\* the row test with the threshold fixed at one measurement
SelectedCellsAtLeastOne(kx) ==
    [p \in 1..Len(kx.index) |-> Measurements(kx.index[p], kx.columns) >= 1]

\* line 43: (keptX>=0).sum(axis=1) >= minMeasurementsPerCell
SelectedCells(kx) ==
    [p \in 1..Len(kx.index) |->
        Measurements(kx.index[p], kx.columns) >= minMeasurementsPerCell]

\* the column test without its second conjunct
SelectedColumnsNoAbsent(kx, cells) ==
    LET rows == Masked(kx.index, cells)
    IN  [q \in 1..Len(kx.columns) |->
            CountIn(rows, kx.columns[q], Present) >= minPresence]

\* line 44: counted over keptX[selectedCells]
SelectedColumns(kx, cells) ==
    LET rows == Masked(kx.index, cells)
    IN  [q \in 1..Len(kx.columns) |->
            /\ CountIn(rows, kx.columns[q], Present) >= minPresence
            /\ CountIn(rows, kx.columns[q], Absent) > 0]

\* the loop condition comparing the previous row count with the column count
LoopConditionWrongIndex ==
    \/ prev = None
    \/ prev[1][1] # SumMask(selectedColumns[1])
    \/ prev[1][2] # SumMask(selectedColumns[1])

\* line 40
LoopCondition ==
    \/ prev = None
    \/ prev[1][1] # SumMask(selectedCells[1])
    \/ prev[1][2] # SumMask(selectedColumns[1])

\* the counts remembered after the masks are recomputed instead of before
RememberedAfter ==
    Some(<< SumMask(selectedCells'[1]), SumMask(selectedColumns'[1]) >>)

\* lines 41-42: prev, set from the masks of the execution before
Remembered ==
    IF selectedCells # None
    THEN Some(<< SumMask(selectedCells[1]), SumMask(selectedColumns[1]) >>)
    ELSE prev

\* lines 41-46: one execution of the loop body
FilterIteration ==
    /\ pc = "filter"
    /\ LoopCondition = TRUE
    /\ LET cells == SelectedCells(keptX)
           cols == SelectedColumns(keptX, cells)
           kept == [index |-> Masked(keptX.index, cells),
                    columns |-> Masked(keptX.columns, cols)]
       IN  /\ selectedCells' = Some(cells)
           /\ selectedColumns' = Some(cols)
           /\ keptX' = kept
           /\ lastChange' = IF kept # keptX THEN iteration + 1 ELSE lastChange
    /\ prev' = Remembered
    /\ iteration' = iteration + 1
    /\ UNCHANGED << X, minPresence, minMeasurementsPerCell, weight, pc, pOnes,
                    pZeros, simMatrix, differenceMatrix, jointMatrix, cai, cbi,
                    normalisationFactor, i, j, result, visited, call, firstKept >>

\* ----------------------------------------------------- exact arithmetic
\* the primes a row count of at most MaxRows (and the 2 of 0.5) can hold
PrimeBase == {2} \cup {p \in 3..MaxRows : \A d \in 2..(p - 1) : p % d # 0}

ZeroVec == [p \in PrimeBase |-> 0]
\* the integer k, as k * log2(2)
IntVec(k) == [p \in PrimeBase |-> IF p = 2 THEN k ELSE 0]
VecAdd(u, v) == [p \in PrimeBase |-> u[p] + v[p]]
VecSub(u, v) == [p \in PrimeBase |-> u[p] - v[p]]

RECURSIVE PrimeExp(_, _)
\* the exponent of the prime p in m >= 1
PrimeExp(p, m) == IF m % p = 0 THEN 1 + PrimeExp(p, m \div p) ELSE 0

\* log2(p) * 10^6, rounded down
Log2Floor(p) ==
    CASE p = 2 -> 1000000 [] p = 3 -> 1584962 [] p = 5 -> 2321928 [] p = 7 -> 2807354

RECURSIVE VecBound(_, _, _)
\* a lower (up = FALSE) or upper (up = TRUE) bound of 10^6 * sum of v[p]*log2(p)
VecBound(v, ps, up) ==
    IF ps = {} THEN 0
    ELSE LET p == CHOOSE q \in ps : TRUE
             lo == Log2Floor(p)
             hi == IF p = 2 THEN lo ELSE lo + 1
             term == IF (v[p] >= 0) = up THEN v[p] * hi ELSE v[p] * lo
         IN  term + VecBound(v, ps \ {p}, up)

\* the sign of the real number v stands for; 2 when the bounds cannot tell
Sign(v) ==
    IF v = ZeroVec THEN 0
    ELSE IF VecBound(v, PrimeBase, FALSE) > 0 THEN 1
    ELSE IF VecBound(v, PrimeBase, TRUE) < 0 THEN -1
    ELSE 2

\* a float that is a weight or a sum of weights: finite, or inf/nan
Fin(v) == [fin |-> TRUE, v |-> v]
NonFinite == [fin |-> FALSE, v |-> ZeroVec]

\* x + y
ScalarAdd(x, y) == IF x.fin /\ y.fin THEN Fin(VecAdd(x.v, y.v)) ELSE NonFinite

\* x * mask, mask a numpy bool: inf * False is nan
ScalarTimesMask(x, m) == IF ~x.fin THEN NonFinite ELSE IF m THEN x ELSE Fin(ZeroVec)

RECURSIVE SumSeq(_)
\* np.sum of a vector of floats
SumSeq(s) == IF s = << >> THEN Fin(ZeroVec) ELSE ScalarAdd(Head(s), SumSeq(Tail(s)))

\* count / len(column); 0/0 is nan
Ratio(num, den) == [num |-> num, den |-> den]
Square(r) == [num |-> r.num * r.num, den |-> r.den * r.den]

\* -np.log2(r): log2(0) is -inf
NegLog2(r) ==
    IF r.num = 0 \/ r.den = 0 THEN NonFinite
    ELSE Fin([p \in PrimeBase |-> PrimeExp(p, r.den) - PrimeExp(p, r.num)])

\* a float that is a quotient of two sums of weights, or an entry of np.zeros
NotANumber == [fin |-> FALSE, num |-> ZeroVec, den |-> ZeroVec]
ZeroQuot == [fin |-> TRUE, num |-> ZeroVec, den |-> IntVec(1)]

\* x / y: a zero divisor gives inf or nan
Divide(x, y) ==
    IF x.fin /\ y.fin /\ y.v # ZeroVec
    THEN [fin |-> TRUE, num |-> x.v, den |-> y.v]
    ELSE NotANumber

\* 1 - q
OneMinus(q) ==
    IF q.fin THEN [fin |-> TRUE, num |-> VecSub(q.den, q.num), den |-> q.den]
    ELSE NotANumber

\* x + y for two quotients by the same divisor (lines 96 and 104 both divide
\* by normalisationFactor)
QuotAdd(x, y) ==
    IF x.fin /\ y.fin THEN [fin |-> TRUE, num |-> VecAdd(x.num, y.num), den |-> x.den]
    ELSE NotANumber

\* x == y on floats: nan equals nothing; two finite quotients are equal when
\* x.num * y.den - y.num * x.den vanishes, monomial by monomial
QuotEq(x, y) ==
    /\ x.fin
    /\ y.fin
    /\ \A p \in PrimeBase : \A q \in PrimeBase :
           (x.num[p] * y.den[q] - y.num[p] * x.den[q])
         + (x.num[q] * y.den[p] - y.num[q] * x.den[p]) = 0

\* ------------------------------------------------- after the filter loop
\* the row-count test with its comparison turned round
NotEnoughDataFlipped(kx) == Len(kx.index) > 2

\* line 48: keptX.shape[0] < 2
NotEnoughData(kx) == Len(kx.index) < 2

\* lines 48-49, reached when the loop condition is false
RaiseNotEnoughData ==
    /\ pc = "filter"
    /\ call = 1
    /\ ~LoopCondition
    /\ NotEnoughData(keptX)
    /\ pc' = "raised"
    /\ firstKept' = Some(keptX)
    /\ UNCHANGED << X, minPresence, minMeasurementsPerCell, weight, keptX, prev,
                    selectedCells, selectedColumns, pOnes, pZeros, simMatrix,
                    differenceMatrix, jointMatrix, cai, cbi, normalisationFactor,
                    i, j, result, iteration, lastChange, visited, call >>

\* the constant weight without the square: -log2(0.5)
UnweightedUnsquared == NegLog2(Ratio(1, 2))

\* lines 60-61: -np.log2((0.5)**2)
Unweighted == NegLog2(Square(Ratio(1, 2)))

\* lines 57-58: -np.log2((np.sum(column==v)/len(column))**2)
Weighted(kx, c, v) == NegLog2(Square(Ratio(CountIn(kx.index, c, v), Len(kx.index))))

\* 0 .. n-1, the positions of an n x n matrix
Positions(n) == 0..(n - 1)

\* np.zeros((n, n))
Zeros(n) == [pos \in Positions(n) \X Positions(n) |-> ZeroQuot]

\* lines 51-79, reached when line 48 does not raise
ComputeWeights ==
    /\ pc = "filter"
    /\ call = 1
    /\ ~LoopCondition
    /\ ~NotEnoughData(keptX)
    /\ pOnes' = [q \in 1..Len(keptX.columns) |->
                    IF weight THEN Weighted(keptX, keptX.columns[q], Present)
                    ELSE Unweighted]
    /\ pZeros' = [q \in 1..Len(keptX.columns) |->
                    IF weight THEN Weighted(keptX, keptX.columns[q], Absent)
                    ELSE Unweighted]
    /\ simMatrix' = Zeros(Len(keptX.index))
    /\ differenceMatrix' = Zeros(Len(keptX.index))
    /\ jointMatrix' = Zeros(Len(keptX.index))
    /\ cai' = 0
    /\ cbi' = 0
    /\ pc' = IF Len(keptX.index) = 0 THEN "return" ELSE "pairs"
    /\ firstKept' = Some(keptX)
    /\ UNCHANGED << X, minPresence, minMeasurementsPerCell, weight, keptX, prev,
                    selectedCells, selectedColumns, normalisationFactor, i, j,
                    result, iteration, lastChange, visited, call >>

\* --------------------------------------------------- the pairwise loop
\* rawMatrix[r, :], r counted from 0
RawRow(r) == [f \in 1..Len(keptX.columns) |-> X[keptX.index[r + 1]][keptX.columns[f]]]

\* a == v, elementwise
Equals(a, v) == [f \in 1..Len(a) |-> a[f] = v]

\* np.logical_and(x, y)
LogicalAnd(x, y) == [f \in 1..Len(x) |-> x[f] /\ y[f]]

\* w * mask, elementwise
Times(w, mask) == [f \in 1..Len(w) |-> ScalarTimesMask(w[f], mask[f])]

\* u + v, elementwise
Plus(u, v) == [f \in 1..Len(u) |-> ScalarAdd(u[f], v[f])]

\* lines 88-90, summed as line 96 sums it
UnnormalizedDistance(a, b) ==
    SumSeq(Plus(Times(Plus(pOnes, pZeros),
                      LogicalAnd(Equals(a, Present), Equals(b, Absent))),
                Times(Plus(pZeros, pOnes),
                      LogicalAnd(Equals(a, Absent), Equals(b, Present)))))

\* the normalisation over the first cell only
NormalisationOneSided(a, b) ==
    ScalarAdd(SumSeq(Times(pOnes, Equals(a, Present))),
              SumSeq(Times(pZeros, Equals(a, Absent))))

\* lines 93-94
Normalisation(a, b) ==
    ScalarAdd(ScalarAdd(ScalarAdd(SumSeq(Times(pOnes, Equals(a, Present))),
                                  SumSeq(Times(pZeros, Equals(a, Absent)))),
                        SumSeq(Times(pOnes, Equals(b, Present)))),
              SumSeq(Times(pZeros, Equals(b, Absent))))

\* the similarity with pOnes in the both-absent term too
SimilarityOnesTwice(a, b) ==
    ScalarAdd(SumSeq(Times(Plus(pOnes, pOnes),
                           LogicalAnd(Equals(a, Present), Equals(b, Present)))),
              SumSeq(Times(Plus(pOnes, pOnes),
                           LogicalAnd(Equals(a, Absent), Equals(b, Absent)))))

\* lines 101-102
Similarity(a, b) ==
    ScalarAdd(SumSeq(Times(Plus(pOnes, pOnes),
                           LogicalAnd(Equals(a, Present), Equals(b, Present)))),
              SumSeq(Times(Plus(pZeros, pZeros),
                           LogicalAnd(Equals(a, Absent), Equals(b, Absent)))))

\* the inner loop without its break
BreaksNever(row, col) == FALSE

\* lines 111-112: if cai==cbi: break
PairLoopBreaks(row, col) == row = col

\* lines 117-118: if i==j: break
MirrorLoopBreaks(row, col) == row = col

\* lines 82-112: the body for one (cai, cbi), then the loops' step
PairStep ==
    /\ pc = "pairs"
    /\ LET n == Len(keptX.index)
           a == RawRow(cai)
           b == RawRow(cbi)
           factor == Normalisation(a, b)
           pairwiseNormalizedDistance == Divide(UnnormalizedDistance(a, b), factor)
           normalisedSim == Divide(Similarity(a, b), factor)
           joinedDistance == QuotAdd(pairwiseNormalizedDistance, OneMinus(normalisedSim))
           \* the inner loop ends by its break or when range(n) is exhausted
           ends == PairLoopBreaks(cai, cbi) \/ cbi + 1 = n
       IN  /\ normalisationFactor' = Some(factor)
           /\ differenceMatrix' =
                  [differenceMatrix EXCEPT ![<< cai, cbi >>] = pairwiseNormalizedDistance]
           /\ simMatrix' = [simMatrix EXCEPT ![<< cai, cbi >>] = normalisedSim]
           /\ jointMatrix' = [jointMatrix EXCEPT ![<< cai, cbi >>] = joinedDistance]
           /\ visited' = Append(visited, << cai, cbi >>)
           /\ cbi' = IF ends THEN 0 ELSE cbi + 1
           /\ cai' = IF ends /\ cai + 1 < n THEN cai + 1 ELSE cai
           /\ pc' = IF ends /\ cai + 1 = n THEN "mirror" ELSE "pairs"
           /\ i' = 0
           /\ j' = 0
    /\ UNCHANGED << X, minPresence, minMeasurementsPerCell, weight, keptX, prev,
                    selectedCells, selectedColumns, pOnes, pZeros, result,
                    iteration, lastChange, call, firstKept >>

\* lines 114-118: one assignment, then the loops' step
MirrorStep ==
    /\ pc = "mirror"
    /\ LET n == Len(keptX.index)
           ends == MirrorLoopBreaks(i, j) \/ j + 1 = n
       IN  /\ jointMatrix' = [jointMatrix EXCEPT ![<< j, i >>] = jointMatrix[<< i, j >>]]
           /\ j' = IF ends THEN 0 ELSE j + 1
           /\ i' = IF ends /\ i + 1 < n THEN i + 1 ELSE i
           /\ pc' = IF ends /\ i + 1 = n THEN "return" ELSE "mirror"
    /\ UNCHANGED << X, minPresence, minMeasurementsPerCell, weight, keptX, prev,
                    selectedCells, selectedColumns, pOnes, pZeros, simMatrix,
                    differenceMatrix, cai, cbi, normalisationFactor, result,
                    iteration, lastChange, visited, call, firstKept >>

\* lines 119-130: the labelled frames and the returned tuple; a
\* normalisationFactor never assigned is an UnboundLocalError
Return ==
    /\ pc = "return"
    /\ pc' = IF normalisationFactor = None THEN "unbound" ELSE "done"
    /\ result' = IF normalisationFactor = None THEN None
                 ELSE Some([keptX |-> keptX,
                            labels |-> keptX.index,
                            jointMatrix |-> jointMatrix,
                            simMatrix |-> simMatrix,
                            differenceMatrix |-> differenceMatrix,
                            normalisationFactor |-> normalisationFactor[1]])
    /\ UNCHANGED << X, minPresence, minMeasurementsPerCell, weight, keptX, prev,
                    selectedCells, selectedColumns, pOnes, pZeros, simMatrix,
                    differenceMatrix, jointMatrix, cai, cbi, normalisationFactor,
                    i, j, iteration, lastChange, visited, call, firstKept >>

\* ------------------------------------------------------ specifications
\* the matrices a caller can pass, within the bounds
Shapes == {s \in (1..MaxRows) \X (1..MaxCols) : s[1] * s[2] <= MaxEntries}
InputMatrices == UNION {[1..s[1] -> [1..s[2] -> Values]] : s \in Shapes}

RECURSIVE Labels(_)
\* df.index / df.columns of the caller's matrix: 1, ..., n
Labels(n) == IF n = 0 THEN << >> ELSE Append(Labels(n - 1), n)

\* a call sparseDistance(X, minPresence, minMeasurementsPerCell, weight), at
\* line 40 after lines 37-39
Init ==
    /\ X \in InputMatrices
    /\ minPresence \in 1..MaxMinPresence
    /\ minMeasurementsPerCell \in 1..MaxMinMeasurementsPerCell
    /\ weight \in BOOLEAN
    /\ pc = "filter"
    /\ keptX = [index |-> Labels(Len(X)), columns |-> Labels(Len(X[1]))]
    /\ prev = None
    /\ selectedCells = None
    /\ selectedColumns = None
    /\ pOnes = << >>
    /\ pZeros = << >>
    /\ simMatrix = << >>
    /\ differenceMatrix = << >>
    /\ jointMatrix = << >>
    /\ cai = 0
    /\ cbi = 0
    /\ normalisationFactor = None
    /\ i = 0
    /\ j = 0
    /\ result = None
    /\ iteration = 0
    /\ lastChange = 0
    /\ visited = << >>
    /\ call = 1
    /\ firstKept = None

Next ==
    \/ FilterIteration
    \/ RaiseNotEnoughData
    \/ ComputeWeights
    \/ PairStep
    \/ MirrorStep
    \/ Return

Spec == Init /\ [][Next]_vars

\* a second call, sparseDistance(keptX, minPresence, minMeasurementsPerCell),
\* on the keptX the first call's filter loop ended with: lines 37-39 again
CallAgain ==
    /\ pc = "filter"
    /\ call = 1
    /\ ~LoopCondition
    /\ call' = 2
    /\ firstKept' = Some(keptX)
    /\ prev' = None
    /\ selectedCells' = None
    /\ selectedColumns' = None
    /\ iteration' = 0
    /\ lastChange' = 0
    /\ UNCHANGED << X, minPresence, minMeasurementsPerCell, weight, pc, keptX,
                    pOnes, pZeros, simMatrix, differenceMatrix, jointMatrix, cai,
                    cbi, normalisationFactor, i, j, result, visited >>

\* the second call's filter loop ends
FilteredAgain ==
    /\ pc = "filter"
    /\ call = 2
    /\ ~LoopCondition
    /\ pc' = "filtered"
    /\ UNCHANGED << X, minPresence, minMeasurementsPerCell, weight, keptX, prev,
                    selectedCells, selectedColumns, pOnes, pZeros, simMatrix,
                    differenceMatrix, jointMatrix, cai, cbi, normalisationFactor,
                    i, j, result, iteration, lastChange, visited, call, firstKept >>

NextRefilter ==
    \/ FilterIteration
    \/ CallAgain
    \/ FilteredAgain

SpecRefilter == Init /\ [][NextRefilter]_vars

\* =============================================================== claims
Elems(seq) == {seq[k] : k \in 1..Len(seq)}
Max(a, b) == IF a >= b THEN a ELSE b
AllMissing == \A r \in DOMAIN X : \A c \in DOMAIN X[r] : X[r][c] = Missing
SomeRetainedMissing ==
    \E r \in Elems(keptX.index) : \E c \in Elems(keptX.columns) : X[r][c] = Missing

\* C1: when sparseDistance returns, every row of the returned keptX has at
\* least minMeasurementsPerCell non-missing entries among the retained
\* columns, and every retained column has, among the retained rows, at least
\* minPresence Present entries and at least one Absent entry.
C1_FilteredMatrixInvariant ==
    pc = "done" =>
        LET rows == Elems(result[1].keptX.index)
            cols == Elems(result[1].keptX.columns)
        IN  /\ \A r \in rows :
                   Cardinality({c \in cols : X[r][c] # Missing}) >= minMeasurementsPerCell
            /\ \A c \in cols :
                   /\ Cardinality({r \in rows : X[r][c] = Present}) >= minPresence
                   /\ Cardinality({r \in rows : X[r][c] = Absent}) >= 1

\* C1 witness: a call that returned after the filter removed a column in
\* one execution of the loop body and a row in a later one
C1_Witness ==
    /\ pc = "done"
    /\ Len(keptX.index) < Len(X)
    /\ Len(keptX.columns) < Len(X[1])
    /\ lastChange >= 2

\* C3: once the filter loop has ended, fewer than 2 retained rows or zero
\* retained columns means the call raised 'Not enough data' and returned
\* nothing; an input that is Missing everywhere ends with 0 rows, raised.
C3_InsufficientData ==
    pc # "filter" =>
        /\ (Len(keptX.index) < 2 \/ Len(keptX.columns) = 0)
               => (pc = "raised" /\ result = None)
        /\ AllMissing => (Len(keptX.index) = 0 /\ pc = "raised")

\* C3 witness: an all-Missing matrix of at least two rows, raised
C3_Witness ==
    /\ pc = "raised"
    /\ AllMissing
    /\ Len(X) >= 2
    /\ Len(keptX.index) = 0
    /\ Len(keptX.columns) = 0

\* C5: in a second call on the keptX of the first, with the same thresholds,
\* no execution of the loop body removes a row or a column: keptX keeps the
\* same row labels and column labels in the same order to the end.
C5_FilterIdempotent ==
    call = 2 => (keptX = firstKept[1] /\ lastChange = 0)

\* C5 witness: the second call's loop has ended, on a non-empty keptX from
\* which the first call had removed a row and a column
C5_Witness ==
    /\ pc = "filtered"
    /\ call = 2
    /\ iteration >= 2
    /\ Len(keptX.index) >= 2
    /\ Len(keptX.index) < Len(X)
    /\ Len(keptX.columns) < Len(X[1])

\* C7: every execution of the loop body leaves rows and columns that are
\* among those it started with; keptX takes its final value after at most
\* R + C executions (lastChange), and the loop ends with the first execution
\* from the second on that removes nothing, so it has ended after at most
\* Max(2, lastChange + 1) executions.
C7_FilterConverges ==
    /\ [][/\ Elems(keptX'.index) \subseteq Elems(keptX.index)
          /\ Elems(keptX'.columns) \subseteq Elems(keptX.columns)]_vars
    /\ [](/\ lastChange <= Len(X) + Len(X[1])
          /\ iteration <= Max(2, lastChange + 1)
          /\ pc # "filter" => iteration = Max(2, lastChange + 1))

\* C7 witness: the loop has ended and the last removal was in execution R + C
C7_Witness ==
    /\ pc # "filter"
    /\ lastChange = Len(X) + Len(X[1])

\* the pairs the pairwise loop has to compute, in its order: (0,0), (1,0),
\* (1,1), (2,0), ...
RECURSIVE LowerTriangle(_)
LowerTriangle(n) ==
    IF n = 0 THEN << >>
    ELSE LowerTriangle(n - 1) \o [k \in 1..n |-> << n - 1, k - 1 >>]

IsPrefix(s, t) == Len(s) <= Len(t) /\ \A k \in 1..Len(s) : s[k] = t[k]

\* the retained row at position r (from 0), by column position
RetainedRow(r) == [f \in 1..Len(keptX.columns) |-> X[keptX.index[r + 1]][keptX.columns[f]]]

RECURSIVE VecTotal(_)
\* the sum of a sequence of coefficient vectors
VecTotal(vs) == IF vs = << >> THEN ZeroVec ELSE VecAdd(Head(vs), VecTotal(Tail(vs)))

Features == 1..Len(keptX.columns)
Retained == Positions(Len(keptX.index))

\* C2 (as claimed): each of the three returned matrices is symmetric.
C2_AllSymmetric ==
    pc = "done" =>
        \A a \in Retained : \A b \in Retained :
            /\ QuotEq(result[1].differenceMatrix[<< a, b >>],
                      result[1].differenceMatrix[<< b, a >>])
            /\ QuotEq(result[1].simMatrix[<< a, b >>], result[1].simMatrix[<< b, a >>])
            /\ QuotEq(result[1].jointMatrix[<< a, b >>], result[1].jointMatrix[<< b, a >>])

C6_UniformWeights ==
    (~weight /\ pc \in {"pairs", "mirror", "return", "done"}) =>
        /\ \A f \in Features :
               pOnes[f] = Fin(IntVec(2)) /\ pZeros[f] = Fin(IntVec(2))
        /\ \A k \in 1..Len(visited) :
               LET a == RetainedRow(visited[k][1])
                   b == RetainedRow(visited[k][2])
                   mismatches == Cardinality({f \in Features :
                                     {a[f], b[f]} = {Present, Absent}})
                   defined(row) == Cardinality({f \in Features : row[f] # Missing})
               IN  QuotEq(differenceMatrix[visited[k]],
                          [fin |-> TRUE,
                           num |-> IntVec(4 * mismatches),
                           den |-> IntVec(2 * (defined(a) + defined(b)))])

\* C6 witness: an unweighted call returned after computing a pair of cells
\* that differ in a feature and of which one has a Missing entry
C6_Witness ==
    /\ pc = "done"
    /\ ~weight
    /\ \E a \in Retained : \E b \in Retained :
           /\ \E f \in Features : {RetainedRow(a)[f], RetainedRow(b)[f]} = {Present, Absent}
           /\ \E f \in Features : RetainedRow(a)[f] = Missing

C9_NoDivisionByZero ==
    pc \in {"pairs", "mirror", "return", "done"} =>
        LET n == Len(keptX.index)
            rows == Elems(keptX.index)
        IN  /\ n >= 2
            /\ Len(keptX.columns) >= 1
            /\ \A f \in Features :
                   LET c == keptX.columns[f]
                   IN  /\ Cardinality({r \in rows : X[r][c] = Present}) \in 1..(n - 1)
                       /\ Cardinality({r \in rows : X[r][c] = Absent}) \in 1..(n - 1)
                       /\ pOnes[f].fin /\ Sign(pOnes[f].v) = 1
                       /\ pZeros[f].fin /\ Sign(pZeros[f].v) = 1
            /\ normalisationFactor # None =>
                   (normalisationFactor[1].fin /\ Sign(normalisationFactor[1].v) = 1)
            /\ \A k \in 1..Len(visited) :
                   /\ differenceMatrix[visited[k]].fin
                   /\ simMatrix[visited[k]].fin
                   /\ jointMatrix[visited[k]].fin
                   /\ Sign(differenceMatrix[visited[k]].den) = 1

\* C9 witness: a weighted call returned a keptX of three cells in which a
\* cell has a single non-missing entry
C9_Witness ==
    /\ pc = "done"
    /\ weight
    /\ Len(keptX.index) = 3
    /\ \E a \in Retained :
           Cardinality({f \in Features : RetainedRow(a)[f] # Missing}) = 1
    /\ SomeRetainedMissing

====
